---- MODULE Spec2Model ----
(***************************************************************************)
(* The guardrail pipeline of src/main.py: chat_endpoint (length check,     *)
(* keyword block, prompt-stage judge under a bounded wait), the streaming  *)
(* generator with its background judge tasks, and run_guardrail_judge with *)
(* the process-wide judge_semaphore.                                       *)
(*                                                                         *)
(* Scheduling is asyncio's: one thread, each coroutine runs from one       *)
(* suspension point to the next without interruption, so every action      *)
(* below is one such run.  A task that was created starts at some later    *)
(* turn of the loop; Task.cancel() only requests cancellation, which is    *)
(* delivered when the task next runs and then wins over whatever the task  *)
(* was waiting for.                                                        *)
(*                                                                         *)
(* main.py names no interpreter version; asyncio.timeout needs CPython     *)
(* 3.11 or later.  On timeout asyncio.wait_for cancels the inner task and  *)
(* raises TimeoutError once that task has ended, on every version.  When   *)
(* the timer fires in the loop turn in which the inner task finished,      *)
(* before the waiting handler has run again, the versions differ: 3.11's   *)
(* wait_for tests fut.done() and returns the result; from 3.12 on wait_for *)
(* is `async with timeout(): return await fut`, the timer cancels the      *)
(* handler and wait_for raises TimeoutError although the task is done.     *)
(* The model has both outcomes (L2Resume, L2TimedOutLate).                 *)
(***************************************************************************)
EXTENDS Naturals, Integers, Sequences, FiniteSets, TLC

(***************************************************************************)
(* Strings are sequences of one-character strings; a character outside     *)
(* ASCII is written by its code point ("u0e41").                           *)
(***************************************************************************)
UPPER == <<"A", "B", "C", "D", "E", "F", "G", "H", "I", "J", "K", "L", "M",
           "N", "O", "P", "Q", "R", "S", "T", "U", "V", "W", "X", "Y", "Z">>

LOWER == <<"a", "b", "c", "d", "e", "f", "g", "h", "i", "j", "k", "l", "m",
           "n", "o", "p", "q", "r", "s", "t", "u", "v", "w", "x", "y", "z">>

Whitespace == {" ", "\t", "\n", "\r"}

\* str.lower() on one character
LowerChar(c) ==
    IF \E i \in 1..Len(UPPER) : UPPER[i] = c
    THEN LOWER[CHOOSE i \in 1..Len(UPPER) : UPPER[i] = c]
    ELSE c

\* str.lower()
Lower(s) == [i \in 1..Len(s) |-> LowerChar(s[i])]

RECURSIVE LStrip(_)
LStrip(s) ==
    IF s = <<>> \/ Head(s) \notin Whitespace THEN s ELSE LStrip(Tail(s))

RECURSIVE RStrip(_)
RStrip(s) ==
    IF s = <<>> \/ s[Len(s)] \notin Whitespace
    THEN s
    ELSE RStrip(SubSeq(s, 1, Len(s) - 1))

\* str.strip()
Strip(s) == RStrip(LStrip(s))

\* kw in s
Contains(s, kw) ==
    \E i \in 1..(Len(s) - Len(kw) + 1) : SubSeq(s, i, i + Len(kw) - 1) = kw

MAX_PROMPT_LENGTH == 1000

CHECK_INTERVAL == 40

WINDOW == 140

MAX_CONCURRENT_JUDGES == 1

FORBIDDEN_KEYWORDS == {
    <<"a", "i", "r", "a", "s", "i", "a">>,
    <<"u0e41", "u0e2d", "u0e23", "u0e4c", "u0e40", "u0e2d", "u0e40", "u0e0a", "u0e35", "u0e22">>,
    <<"n", "o", "k", " ", "a", "i", "r">>,
    <<"u0e19", "u0e01", "u0e41", "u0e2d", "u0e23", "u0e4c">>,
    <<"l", "i", "o", "n", " ", "a", "i", "r">>,
    <<"u0e44", "u0e25", "u0e2d", "u0e49", "u0e2d", "u0e19", "u0e41", "u0e2d", "u0e23", "u0e4c">>,
    <<"v", "i", "e", "t", "j", "e", "t">>,
    <<"q", "a", "t", "a", "r", " ", "a", "i", "r", "w", "a", "y", "s">>,
    <<"e", "m", "i", "r", "a", "t", "e", "s">>,
    <<"s", "i", "n", "g", "a", "p", "o", "r", "e", " ", "a", "i", "r", "l", "i", "n", "e", "s">>,
    <<"u0e01", "u0e32", "u0e23", "u0e1a", "u0e34", "u0e19", "u0e44", "u0e17", "u0e22">> }

\* the fixed messages of the three rejections and of the stream error
L1_MSG == "L1: SkyHigh services only"

L2_MSG == "L2: content not in line with policy"

L3_MSG == "L3: conversation not in line with policy"

ERR_MSG == "temporary failure"

FixedMsgs == {L1_MSG, L2_MSG, L3_MSG, ERR_MSG}

(***************************************************************************)
(* Inputs.  A prompt is written [body, pad]: the characters of body        *)
(* followed by pad times "x", so that prompts around MAX_PROMPT_LENGTH     *)
(* stay small in the state; every operation acts on Text(p), the string    *)
(* written out.                                                            *)
(***************************************************************************)
Text(p) == p.body \o [i \in 1..p.pad |-> "x"]

Hi == <<" ", "H", "i", " ">>

FlyAirAsia == <<"F", "l", "y", " ", "A", "i", "r", "A", "s", "i", "a">>

Bodies == { <<" ", " ">>, Hi, FlyAirAsia, <<"N", "O", "K", " ", "A", "I", "R", "?">> }

\* short prompts, prompts of exactly MAX_PROMPT_LENGTH characters and prompts
\* of one character more
Prompts ==
    [body : Bodies, pad : {0}]
    \cup { [body |-> FlyAirAsia, pad |-> MAX_PROMPT_LENGTH - Len(FlyAirAsia)],
           [body |-> FlyAirAsia, pad |-> MAX_PROMPT_LENGTH - Len(FlyAirAsia) + 1],
           [body |-> Hi, pad |-> MAX_PROMPT_LENGTH - Len(Hi) + 1] }

\* the requests of a run
Reqs == {"r1", "r2"}

\* the parts the generation backend delivers in a run, all requests together
MaxParts == 2

(***************************************************************************)
(* A part of the chat stream: a content fragment, of which the model keeps *)
(* the length and whether it is all whitespace (a fragment that is not has *)
(* no whitespace), or a part without message.content.  Two fragments of    *)
(* spaces make exactly CHECK_INTERVAL characters; a fragment of words is   *)
(* longer than the window.                                                 *)
(***************************************************************************)
Frags == { [id |-> "spaces", len |-> 20,  blank |-> TRUE],
           [id |-> "words",  len |-> 150, blank |-> FALSE] }

NoContent == [id |-> "nocontent", len |-> 0, blank |-> TRUE]

Parts == Frags \cup {NoContent}

VARIABLES
    pc,               \* where each request's handler / generator is suspended
    prompt,           \* the request's prompt parameter
    is_safe_event,    \* the request's asyncio.Event
    tasks,            \* the Judge tasks of the request: 1 is initial_check
    judge_semaphore,  \* the value of the process-wide semaphore
    out,              \* the chunks the response has yielded
    produced,         \* the parts received from client.chat's stream
    last_check_len,   \* stream_generator's local
    chat_called,      \* client.chat was called for the request
    outcome,          \* how the request ended
    cleared_at,       \* Len(out) when the event was cleared while streaming
    judged            \* what the classifier calls of the request came to

vars == <<pc, prompt, is_safe_event, tasks, judge_semaphore, out, produced,
          last_check_len, chat_called, outcome, cleared_at, judged>>

NoPrompt == [body |-> <<>>, pad |-> 0]

Init ==
    /\ pc = [r \in Reqs |-> "new"]
    /\ prompt = [r \in Reqs |-> NoPrompt]
    /\ is_safe_event = [r \in Reqs |-> TRUE]
    /\ tasks = [r \in Reqs |-> <<>>]
    /\ judge_semaphore = MAX_CONCURRENT_JUDGES
    /\ out = [r \in Reqs |-> <<>>]
    /\ produced = [r \in Reqs |-> <<>>]
    /\ last_check_len = [r \in Reqs |-> 0]
    /\ chat_called = [r \in Reqs |-> FALSE]
    /\ outcome = [r \in Reqs |-> "none"]
    /\ cleared_at = [r \in Reqs |-> -1]
    /\ judged = [r \in Reqs |-> "none"]

\* a background task that has finished and whose done callback has not run
Finished(t) == t.kind = "output" /\ t.st \in {"done", "cancelled"}

\* a done callback is scheduled with call_soon as its task finishes and runs
\* before the loop polls again: the model runs it before any other step, and
\* every other action waits for it
CallbackDue == \E r \in Reqs : \E i \in DOMAIN tasks[r] : Finished(tasks[r][i])

(***************************************************************************)
(* chat_endpoint up to its first suspension                                *)
(***************************************************************************)
\* len(prompt) > MAX_PROMPT_LENGTH
TooLong(s) == Len(s) > MAX_PROMPT_LENGTH

\* the keyword test without lower(): a mixed-case keyword passes
KeywordHitCaseSensitive(s) == \E kw \in FORBIDDEN_KEYWORDS : Contains(s, kw)

\* any(kw in prompt.lower() for kw in FORBIDDEN_KEYWORDS)
KeywordHit(s) ==
    LET low == Lower(s) IN \E kw \in FORBIDDEN_KEYWORDS : Contains(low, kw)

\* what run_guardrail_judge reads of its text: its length and `not text.strip()`
JudgeText(s) == [len |-> Len(s), blank |-> Strip(s) = <<>>]

\* a chunk that is one of the fixed messages
Msg(m) == [id |-> m, len |-> 0, blank |-> FALSE]

\* asyncio.create_task(run_guardrail_judge(text, is_safe_event, ...))
NewTask(kind, id, text) ==
    [kind |-> kind, id |-> id, text |-> text, st |-> "created", res |-> "none",
     cancel_req |-> FALSE, called |-> FALSE]

Finish(r, how) ==
    /\ pc' = [pc EXCEPT ![r] = "done"]
    /\ outcome' = [outcome EXCEPT ![r] = how]

\* the keyword block placed before the length check
AdmitKeywordFirst(p) ==
    IF KeywordHit(Strip(Text(p))) THEN "l1"
    ELSE IF TooLong(Text(p)) THEN "413"
    ELSE "judge"

\* the path a prompt takes through chat_endpoint's synchronous part
Admit(p) ==
    IF TooLong(Text(p)) THEN "413"
    ELSE IF KeywordHit(Strip(Text(p))) THEN "l1"
    ELSE "judge"

\* Admit and the judge's view of the stripped prompt, tabulated once per prompt
AdmitTable == { <<p, Admit(p), JudgeText(Strip(Text(p)))>> : p \in Prompts }

Admission(p) == (CHOOSE e \in AdmitTable : e[1] = p)[2]

PromptText(p) == (CHOOSE e \in AdmitTable : e[1] = p)[3]

Arrive(r, p) ==
    /\ pc[r] = "new"
    /\ ~CallbackDue
    /\ prompt' = [prompt EXCEPT ![r] = p]
    /\ CASE Admission(p) = "413" ->
              /\ Finish(r, "413")
              /\ UNCHANGED <<tasks, out>>
         [] Admission(p) = "l1" ->
              /\ out' = [out EXCEPT ![r] = <<Msg(L1_MSG)>>]
              /\ Finish(r, "l1")
              /\ UNCHANGED tasks
         [] Admission(p) = "judge" ->
              /\ tasks' = [tasks EXCEPT ![r] = <<NewTask("prompt", 0, PromptText(p))>>]
              /\ pc' = [pc EXCEPT ![r] = "l2wait"]
              /\ UNCHANGED <<out, outcome>>
    /\ UNCHANGED <<is_safe_event, judge_semaphore, produced, last_check_len,
                   chat_called, cleared_at, judged>>

(***************************************************************************)
(* run_guardrail_judge                                                     *)
(***************************************************************************)
\* judge_semaphore.locked()
Locked(sem) == sem = 0

\* the early return without the locked() test
SkipsBlankOnly(text, sem) == text.blank

\* the early return without the strip() test
SkipsBusyOnly(text, sem) == Locked(sem)

\* the early return: `not text.strip() or judge_semaphore.locked()`
Skips(text, sem) == text.blank \/ Locked(sem)

\* entering the judge without taking the semaphore
AcquireNothing(sem) == sem

\* Semaphore.acquire() of a free semaphore / Semaphore.release()
Acquire(sem) == sem - 1

Release(sem) == sem + 1

\* the event made to follow the last response: set again on SAFE
EventFollowsVerdict(ev, unsafe) == ~unsafe

\* the event after a response: cleared when it holds UNSAFE, else left alone
EventAfterVerdict(ev, unsafe) == IF unsafe THEN FALSE ELSE ev

\* one event for the whole process: a verdict reaches every request
EventsShared(evs, r, unsafe) == [q \in Reqs |-> EventAfterVerdict(evs[q], unsafe)]

\* the events after a response to a judge of request r: the judge holds the
\* Event its handler created and passed to it, and no other
EventsAfterVerdict(evs, r, unsafe) ==
    [evs EXCEPT ![r] = EventAfterVerdict(@, unsafe)]

\* a task is still running: created and not yet started, or inside the judge
Pending(t) == t.st \in {"created", "waiting", "calling"}

Streaming(r) == pc[r] \in {"recv", "ytoken"}

\* the summary of a request's classifier calls after one more ended with res:
\* an UNSAFE response stays; else a timeout or error is remembered
JudgedAfter(j, res) ==
    IF j = "unsafe" \/ res = "unsafe" THEN "unsafe"
    ELSE IF res \in {"timeout", "error"} THEN "failed"
    ELSE j

\* a judge whose call is shielded from cancellation
ResumesAnyway(t) == TRUE

\* the task runs on from where it is suspended only if no cancellation was
\* requested: Task.cancel() makes the task's next step raise CancelledError at
\* the await, also when what it awaited is already there
Resumes(t) == ~t.cancel_req

\* the task's first run: the early return, or acquire and call the classifier.
\* acquire() of a locked semaphore would wait; after the locked() test of the
\* early return, with no suspension between the two, it never does
JudgeStart(r, i) ==
    /\ i \in DOMAIN tasks[r]
    /\ LET t == tasks[r][i] IN
       /\ t.st = "created"
       /\ Resumes(t)
       /\ ~CallbackDue
       /\ IF Skips(t.text, judge_semaphore)
          THEN /\ tasks' = [tasks EXCEPT ![r][i].st = "done",
                                         ![r][i].res = IF t.text.blank THEN "blank" ELSE "busy"]
               /\ UNCHANGED judge_semaphore
          ELSE IF judge_semaphore > 0
               THEN /\ tasks' = [tasks EXCEPT ![r][i].st = "calling",
                                              ![r][i].called = TRUE]
                    /\ judge_semaphore' = Acquire(judge_semaphore)
               ELSE /\ tasks' = [tasks EXCEPT ![r][i].st = "waiting"]
                    /\ UNCHANGED judge_semaphore
    /\ UNCHANGED <<pc, prompt, is_safe_event, out, produced, last_check_len,
                   chat_called, outcome, cleared_at, judged>>

\* client.generate returns; the response is parsed and the semaphore released
JudgeRespond(r, i, unsafe) ==
    /\ i \in DOMAIN tasks[r]
    /\ LET t == tasks[r][i] IN
       /\ t.st = "calling"
       /\ Resumes(t)
       /\ ~CallbackDue
       /\ tasks' = [tasks EXCEPT ![r][i].st = "done",
                                 ![r][i].res = IF unsafe THEN "unsafe" ELSE "safe"]
       /\ is_safe_event' = EventsAfterVerdict(is_safe_event, r, unsafe)
       /\ judge_semaphore' = Release(judge_semaphore)
       /\ cleared_at' = [cleared_at EXCEPT
                           ![r] = IF unsafe /\ is_safe_event[r] /\ Streaming(r)
                                  THEN Len(out[r]) ELSE @]
       /\ judged' = [judged EXCEPT ![r] = JudgedAfter(@, IF unsafe THEN "unsafe" ELSE "safe")]
    /\ UNCHANGED <<pc, prompt, out, produced, last_check_len, chat_called, outcome>>

\* failing closed: the event cleared on timeout or error
EventClearedOnFailure(ev) == FALSE

\* the event after `except asyncio.TimeoutError` / `except Exception`: untouched
EventAfterFailure(ev) == ev

\* a judge that keeps the semaphore when its call times out
KeepOnTimeout(sem) == sem

\* how the judge leaves `async with judge_semaphore` on timeout, error, cancel
ReleaseOnTimeout(sem) == Release(sem)

ReleaseOnError(sem) == Release(sem)

\* a cancelled judge that keeps the semaphore
KeepOnCancel(sem) == sem

ReleaseOnCancel(sem) == Release(sem)

\* asyncio.timeout(JUDGE_TIMEOUT_SEC) expires, or the call raises TimeoutError
JudgeTimeout(r, i) ==
    /\ i \in DOMAIN tasks[r]
    /\ tasks[r][i].st = "calling"
    /\ Resumes(tasks[r][i])
    /\ ~CallbackDue
    /\ tasks' = [tasks EXCEPT ![r][i].st = "done", ![r][i].res = "timeout"]
    /\ is_safe_event' = [is_safe_event EXCEPT ![r] = EventAfterFailure(@)]
    /\ judge_semaphore' = ReleaseOnTimeout(judge_semaphore)
    /\ judged' = [judged EXCEPT ![r] = JudgedAfter(@, "timeout")]
    /\ UNCHANGED <<pc, prompt, out, produced, last_check_len,
                   chat_called, outcome, cleared_at>>

\* client.generate raises
JudgeError(r, i) ==
    /\ i \in DOMAIN tasks[r]
    /\ tasks[r][i].st = "calling"
    /\ Resumes(tasks[r][i])
    /\ ~CallbackDue
    /\ tasks' = [tasks EXCEPT ![r][i].st = "done", ![r][i].res = "error"]
    /\ is_safe_event' = [is_safe_event EXCEPT ![r] = EventAfterFailure(@)]
    /\ judge_semaphore' = ReleaseOnError(judge_semaphore)
    /\ judged' = [judged EXCEPT ![r] = JudgedAfter(@, "error")]
    /\ UNCHANGED <<pc, prompt, out, produced, last_check_len,
                   chat_called, outcome, cleared_at>>

\* the requested cancellation reaches the task: CancelledError unwinds it
JudgeCancelled(r, i) ==
    /\ i \in DOMAIN tasks[r]
    /\ LET t == tasks[r][i] IN
       /\ Pending(t)
       /\ t.cancel_req
       /\ ~CallbackDue
       /\ tasks' = [tasks EXCEPT ![r][i].st = "cancelled"]
       /\ judge_semaphore' = IF t.st = "calling"
                             THEN ReleaseOnCancel(judge_semaphore)
                             ELSE judge_semaphore
    /\ UNCHANGED <<pc, prompt, is_safe_event, out, produced, last_check_len,
                   chat_called, outcome, cleared_at, judged>>

(***************************************************************************)
(* chat_endpoint: the bounded wait on initial_check                        *)
(***************************************************************************)
\* a handler that rejects whatever the event says
RejectsAlways(ev) == TRUE

\* `if not is_safe_event.is_set()` after wait_for
Rejects(ev) == ~ev

\* wait_for returns because initial_check finished within the wait: the L2
\* test, then the one-chunk rejection or the streaming response (the finished
\* task still the handler's local)
L2Resume(r) ==
    /\ pc[r] = "l2wait"
    /\ tasks[r][1].st = "done"
    /\ ~CallbackDue
    /\ IF Rejects(is_safe_event[r])
       THEN /\ out' = [out EXCEPT ![r] = <<Msg(L2_MSG)>>]
            /\ tasks' = [tasks EXCEPT ![r] = <<>>]
            /\ Finish(r, "l2")
       ELSE /\ pc' = [pc EXCEPT ![r] = "open"]
            /\ UNCHANGED <<out, outcome, tasks>>
    /\ UNCHANGED <<prompt, is_safe_event, judge_semaphore, produced,
                   last_check_len, chat_called, cleared_at, judged>>

\* the wait elapses first: wait_for cancels initial_check and waits for it
WaitTimeout(r) ==
    /\ pc[r] = "l2wait"
    /\ Pending(tasks[r][1])
    /\ ~CallbackDue
    /\ tasks' = [tasks EXCEPT ![r][1].cancel_req = TRUE]
    /\ pc' = [pc EXCEPT ![r] = "l2cancel"]
    /\ UNCHANGED <<prompt, is_safe_event, judge_semaphore, out, produced,
                   last_check_len, chat_called, outcome, cleared_at, judged>>

\* a handler that fails closed: the elapsed wait rejected like an UNSAFE prompt
L2TimedOutRejects(r) ==
    /\ pc[r] = "l2cancel"
    /\ tasks[r][1].st = "cancelled"
    /\ ~CallbackDue
    /\ out' = [out EXCEPT ![r] = <<Msg(L2_MSG)>>]
    /\ Finish(r, "l2")
    /\ UNCHANGED <<prompt, is_safe_event, tasks, judge_semaphore, produced,
                   last_check_len, chat_called, cleared_at, judged>>

\* wait_for raises TimeoutError once initial_check is cancelled: the handler
\* falls through to the streaming response, the cancelled task still its local
L2TimedOut(r) ==
    /\ pc[r] = "l2cancel"
    /\ tasks[r][1].st = "cancelled"
    /\ ~CallbackDue
    /\ pc' = [pc EXCEPT ![r] = "open"]
    /\ UNCHANGED <<prompt, is_safe_event, tasks, judge_semaphore, out, produced,
                   last_check_len, chat_called, outcome, cleared_at, judged>>

\* the wait elapses in the loop turn in which initial_check finished, before
\* the handler has run again, and wait_for raises TimeoutError all the same
\* (CPython 3.12 and later): the except branch skips the is_set test, and
\* initial_check.cancel() on a finished task does nothing
L2TimedOutLate(r) ==
    /\ pc[r] = "l2wait"
    /\ tasks[r][1].st = "done"
    /\ ~CallbackDue
    /\ pc' = [pc EXCEPT ![r] = "open"]
    /\ UNCHANGED <<prompt, is_safe_event, tasks, judge_semaphore, out, produced,
                   last_check_len, chat_called, outcome, cleared_at, judged>>

(***************************************************************************)
(* stream_generator                                                        *)
(***************************************************************************)
IsFixed(c) == c.id \in FixedMsgs

\* full_text_buffer, as the fragments appended to it
Buffer(o) == SelectSeq(o, LAMBDA c : ~IsFixed(c))

RECURSIVE TotalLen(_)
TotalLen(fs) == IF fs = <<>> THEN 0 ELSE Head(fs).len + TotalLen(Tail(fs))

\* the last n characters of the fragments fs are all whitespace
RECURSIVE TailBlank(_, _)
TailBlank(fs, n) ==
    IF n <= 0 \/ fs = <<>>
    THEN TRUE
    ELSE LET f == fs[Len(fs)] IN
         /\ (f.len = 0 \/ f.blank)
         /\ TailBlank(SubSeq(fs, 1, Len(fs) - 1), n - f.len)

\* full_text_buffer[-140:]
Window(fs) ==
    [len   |-> IF TotalLen(fs) < WINDOW THEN TotalLen(fs) ELSE WINDOW,
     blank |-> TailBlank(fs, WINDOW)]

\* the trigger with > for >=
CheckDueStrict(buflen, last) == buflen - last > CHECK_INTERVAL

\* len(full_text_buffer) - last_check_len >= CHECK_INTERVAL
CheckDue(buflen, last) == buflen - last >= CHECK_INTERVAL

\* a loop without the abort test
AbortsNever(ev) == FALSE

\* the abort test at the top of the loop body: `not is_safe_event.is_set()`
Aborts(ev) == ~ev

\* `"message" in part and "content" in part["message"]`
HasContent(part) == part \in Frags

\* a finally that cancels nothing
CancelNone(ts) == ts

\* finally: for t in background_tasks: t.cancel()
CancelAll(ts) ==
    [i \in DOMAIN ts |->
        IF ts[i].kind = "output" /\ Pending(ts[i])
        THEN [ts[i] EXCEPT !.cancel_req = TRUE]
        ELSE ts[i]]

\* parts delivered so far, all requests together
RECURSIVE PartsOf(_)
PartsOf(S) ==
    IF S = {} THEN 0
    ELSE LET r == CHOOSE x \in S : TRUE IN Len(produced[r]) + PartsOf(S \ {r})

\* an except branch that only logs
StreamErrorSilent(o) == o

\* `except Exception`: the temporary-failure message is yielded after what the
\* response already holds
StreamError(o) == Append(o, Msg(ERR_MSG))

\* `await client.chat(...)` at the first __anext__: the stream opens or raises;
\* the handler has returned and background_tasks starts empty
GenOpen(r, ok) ==
    /\ pc[r] = "open"
    /\ ~CallbackDue
    /\ chat_called' = [chat_called EXCEPT ![r] = TRUE]
    /\ tasks' = [tasks EXCEPT ![r] = <<>>]
    /\ IF ok
       THEN /\ pc' = [pc EXCEPT ![r] = "recv"]
            /\ UNCHANGED out
       ELSE /\ out' = [out EXCEPT ![r] = StreamError(@)]
            /\ pc' = [pc EXCEPT ![r] = "yerr"]
    /\ UNCHANGED <<prompt, is_safe_event, judge_semaphore, produced,
                   last_check_len, outcome, cleared_at, judged>>

\* a token put in front of what was forwarded
ForwardReversed(o, token) == <<token>> \o o

\* `full_text_buffer += token` and `yield token`: the token goes after
\* everything forwarded so far
Forward(o, token) == Append(o, token)

\* a part arrives: abort test, then append and yield the token
GenPart(r, part) ==
    /\ pc[r] = "recv"
    /\ PartsOf(Reqs) < MaxParts
    /\ ~CallbackDue
    /\ produced' = [produced EXCEPT ![r] = Append(@, part)]
    /\ IF Aborts(is_safe_event[r])
       THEN /\ out' = [out EXCEPT ![r] = Append(@, Msg(L3_MSG))]
            /\ pc' = [pc EXCEPT ![r] = "yabort"]
       ELSE IF HasContent(part)
            THEN /\ out' = [out EXCEPT ![r] = Forward(@, part)]
                 /\ pc' = [pc EXCEPT ![r] = "ytoken"]
            ELSE UNCHANGED <<out, pc>>
    /\ UNCHANGED <<prompt, is_safe_event, tasks, judge_semaphore,
                   last_check_len, chat_called, outcome, cleared_at, judged>>

\* a loop that awaits the check it has dispatched
AwaitsCheck(dispatched) == IF dispatched THEN "check" ELSE "recv"

\* where the loop body ends: create_task and add_done_callback do not suspend,
\* so with or without a dispatch the generator goes on to the next __anext__
AfterTrigger(dispatched) == "recv"

\* the generator is resumed after `yield token`: the interval trigger
ResumeToken(r) ==
    /\ pc[r] = "ytoken"
    /\ ~CallbackDue
    /\ LET buf == Buffer(out[r])
           due == CheckDue(TotalLen(buf), last_check_len[r])
       IN
       /\ IF due
          THEN /\ tasks' = [tasks EXCEPT ![r] = Append(@, NewTask("output", TotalLen(buf), Window(buf)))]
               /\ last_check_len' = [last_check_len EXCEPT ![r] = TotalLen(buf)]
          ELSE UNCHANGED <<tasks, last_check_len>>
       /\ pc' = [pc EXCEPT ![r] = AfterTrigger(due)]
    /\ UNCHANGED <<prompt, is_safe_event, judge_semaphore, out, produced,
                   chat_called, outcome, cleared_at, judged>>

\* the stream is exhausted: the loop ends, finally runs
GenEnd(r) ==
    /\ pc[r] = "recv"
    /\ ~CallbackDue
    /\ tasks' = [tasks EXCEPT ![r] = CancelAll(@)]
    /\ Finish(r, "completed")
    /\ UNCHANGED <<prompt, is_safe_event, judge_semaphore, out, produced,
                   last_check_len, chat_called, cleared_at, judged>>

\* the stream raises: except Exception yields the temporary-failure message
GenFail(r) ==
    /\ pc[r] = "recv"
    /\ ~CallbackDue
    /\ out' = [out EXCEPT ![r] = StreamError(@)]
    /\ pc' = [pc EXCEPT ![r] = "yerr"]
    /\ UNCHANGED <<prompt, is_safe_event, tasks, judge_semaphore, produced,
                   last_check_len, chat_called, outcome, cleared_at, judged>>

\* resumed after the abort message: break, finally
ResumeAbort(r) ==
    /\ pc[r] = "yabort"
    /\ ~CallbackDue
    /\ tasks' = [tasks EXCEPT ![r] = CancelAll(@)]
    /\ Finish(r, "aborted")
    /\ UNCHANGED <<prompt, is_safe_event, judge_semaphore, out, produced,
                   last_check_len, chat_called, cleared_at, judged>>

\* resumed after the temporary-failure message: finally
ResumeError(r) ==
    /\ pc[r] = "yerr"
    /\ ~CallbackDue
    /\ tasks' = [tasks EXCEPT ![r] = CancelAll(@)]
    /\ Finish(r, "errored")
    /\ UNCHANGED <<prompt, is_safe_event, judge_semaphore, out, produced,
                   last_check_len, chat_called, cleared_at, judged>>

\* the client goes away while the loop runs: the generator is closed where it
\* is suspended (CancelledError at the await, GeneratorExit at the yield;
\* neither is an Exception) and finally runs.  Closed at one of its last two
\* yields it runs the same finally as when resumed there.
Disconnect(r) ==
    /\ pc[r] \in {"recv", "ytoken"}
    /\ ~CallbackDue
    /\ tasks' = [tasks EXCEPT ![r] = CancelAll(@)]
    /\ Finish(r, "disconnected")
    /\ UNCHANGED <<prompt, is_safe_event, judge_semaphore, out, produced,
                   last_check_len, chat_called, cleared_at, judged>>

Without(ts, i) == SubSeq(ts, 1, i - 1) \o SubSeq(ts, i + 1, Len(ts))

\* task.add_done_callback(background_tasks.discard)
Discard(r, i) ==
    /\ i \in DOMAIN tasks[r]
    /\ Finished(tasks[r][i])
    /\ tasks' = [tasks EXCEPT ![r] = Without(@, i)]
    /\ UNCHANGED <<pc, prompt, is_safe_event, judge_semaphore, out, produced,
                   last_check_len, chat_called, outcome, cleared_at, judged>>

TaskIds == 1..(MaxParts + 1)

Next ==
    \/ \E r \in Reqs, p \in Prompts : Arrive(r, p)
    \/ \E r \in Reqs, i \in TaskIds : JudgeStart(r, i)
    \/ \E r \in Reqs, i \in TaskIds, unsafe \in BOOLEAN : JudgeRespond(r, i, unsafe)
    \/ \E r \in Reqs, i \in TaskIds : JudgeTimeout(r, i)
    \/ \E r \in Reqs, i \in TaskIds : JudgeError(r, i)
    \/ \E r \in Reqs, i \in TaskIds : JudgeCancelled(r, i)
    \/ \E r \in Reqs : L2Resume(r)
    \/ \E r \in Reqs : WaitTimeout(r)
    \/ \E r \in Reqs : L2TimedOut(r)
    \/ \E r \in Reqs : L2TimedOutLate(r)
    \/ \E r \in Reqs, ok \in BOOLEAN : GenOpen(r, ok)
    \/ \E r \in Reqs, part \in Parts : GenPart(r, part)
    \/ \E r \in Reqs : ResumeToken(r)
    \/ \E r \in Reqs : GenEnd(r)
    \/ \E r \in Reqs : GenFail(r)
    \/ \E r \in Reqs : ResumeAbort(r)
    \/ \E r \in Reqs : ResumeError(r)
    \/ \E r \in Reqs : Disconnect(r)
    \/ \E r \in Reqs, i \in TaskIds : Discard(r, i)

Spec == Init /\ [][Next]_vars

(***************************************************************************)
(* Progress.  The event loop runs the tasks and callbacks that are ready,   *)
(* the timers of wait_for and asyncio.timeout fire, and the response is    *)
(* iterated while its client is connected (HandlerStep, JudgeStep,         *)
(* ConsumerStep); SourceStep is the assumption that the token source ends  *)
(* or fails once it delivers no more parts.  The system does not stop      *)
(* while one of these steps is possible.  Nothing is assumed of the        *)
(* classifier (JudgeRespond, JudgeError), of new requests, of further      *)
(* parts or of the client going away.                                      *)
(***************************************************************************)
HandlerStep(r) ==
    L2Resume(r) \/ WaitTimeout(r) \/ L2TimedOut(r) \/ L2TimedOutLate(r)

JudgeStep(r) ==
    \E i \in TaskIds :
       JudgeStart(r, i) \/ JudgeTimeout(r, i) \/ JudgeCancelled(r, i) \/ Discard(r, i)

ConsumerStep(r) ==
    \/ \E ok \in BOOLEAN : GenOpen(r, ok)
    \/ ResumeToken(r)
    \/ ResumeAbort(r)
    \/ ResumeError(r)

SourceStep(r) == GenEnd(r) \/ GenFail(r)

Progress ==
    \E r \in Reqs :
       HandlerStep(r) \/ JudgeStep(r) \/ ConsumerStep(r) \/ SourceStep(r)

\* the prompts of LiveSpec: one prompt for each way through the handler
LivePrompts ==
    { [body |-> Hi, pad |-> 0],
      [body |-> FlyAirAsia, pad |-> 0],
      [body |-> Hi, pad |-> MAX_PROMPT_LENGTH - Len(Hi) + 1] }

LiveNext ==
    \/ \E r \in Reqs, p \in LivePrompts : Arrive(r, p)
    \/ \E r \in Reqs, i \in TaskIds : JudgeStart(r, i)
    \/ \E r \in Reqs, i \in TaskIds, unsafe \in BOOLEAN : JudgeRespond(r, i, unsafe)
    \/ \E r \in Reqs, i \in TaskIds : JudgeTimeout(r, i)
    \/ \E r \in Reqs, i \in TaskIds : JudgeError(r, i)
    \/ \E r \in Reqs, i \in TaskIds : JudgeCancelled(r, i)
    \/ \E r \in Reqs : L2Resume(r)
    \/ \E r \in Reqs : WaitTimeout(r)
    \/ \E r \in Reqs : L2TimedOut(r)
    \/ \E r \in Reqs : L2TimedOutLate(r)
    \/ \E r \in Reqs, ok \in BOOLEAN : GenOpen(r, ok)
    \/ \E r \in Reqs, part \in Parts : GenPart(r, part)
    \/ \E r \in Reqs : ResumeToken(r)
    \/ \E r \in Reqs : GenEnd(r)
    \/ \E r \in Reqs : GenFail(r)
    \/ \E r \in Reqs : ResumeAbort(r)
    \/ \E r \in Reqs : ResumeError(r)
    \/ \E r \in Reqs : Disconnect(r)
    \/ \E r \in Reqs, i \in TaskIds : Discard(r, i)

LiveSpec == Init /\ [][LiveNext]_vars /\ WF_vars(Progress)

(***************************************************************************)
(* Properties                                                              *)
(***************************************************************************)
\* the content fragments among the parts received
ContentOf(ps) == SelectSeq(ps, HasContent)

TaskOf(ts, id) == ts[CHOOSE i \in DOMAIN ts : ts[i].id = id]

HasTask(ts, id) == \E i \in DOMAIN ts : ts[i].id = id

AllTasks == { <<r, i>> \in Reqs \X TaskIds : i \in DOMAIN tasks[r] }

Calling == { x \in AllTasks : tasks[x[1]][x[2]].st = "calling" }

\* C1: once the request's event has been cleared, no fragment received from
\* the generation backend afterwards is forwarded: from then on the fragments
\* in the output never change.
C1_NoFragmentAfterUnsafe ==
    [][\A r \in Reqs :
         ~is_safe_event[r] => Buffer(out'[r]) = Buffer(out[r])]_vars

\* a fragment arrived after the event was cleared and the abort message went
\* out in its place
C1_Witness ==
    \E r \in Reqs :
       /\ pc[r] = "yabort"
       /\ cleared_at[r] >= 0
       /\ HasContent(produced[r][Len(produced[r])])
       /\ Len(ContentOf(produced[r])) > Len(Buffer(out[r]))

\* C2: once a background check has reported UNSAFE while the stream runs, the
\* next chunk emitted is the L3 abort message and it is the last one, also
\* when the report comes after the last fragment and the source then ends or
\* fails: a stream that ended (not by a disconnect) after such a report has
\* exactly the abort message after the chunks emitted before the report.
C2_AbortFollowsUnsafe ==
    \A r \in Reqs :
       cleared_at[r] >= 0 =>
          /\ Len(out[r]) > cleared_at[r] =>
                /\ out[r][cleared_at[r] + 1] = Msg(L3_MSG)
                /\ Len(out[r]) = cleared_at[r] + 1
          /\ outcome[r] \in {"completed", "errored", "aborted"} =>
                Len(out[r]) = cleared_at[r] + 1

\* the prompts within the length limit whose lower-cased text contains a
\* denylist entry, tabulated once
DenyTable ==
    { <<p, /\ Len(Text(p)) <= MAX_PROMPT_LENGTH
           /\ \E kw \in FORBIDDEN_KEYWORDS : Contains(Lower(Text(p)), kw)>> :
      p \in Prompts }

\* C3: a request whose prompt is within the length limit and contains, lower-
\* cased, a denylist entry yields exactly the L1 message; no judge task ever
\* exists for it and client.chat is never called.
C3_KeywordBlock ==
    \A r \in Reqs :
       (pc[r] # "new" /\ <<prompt[r], TRUE>> \in DenyTable) =>
          /\ pc[r] = "done"
          /\ outcome[r] = "l1"
          /\ out[r] = <<Msg(L1_MSG)>>
          /\ tasks[r] = <<>>
          /\ ~chat_called[r]

\* blocked: a mixed-case keyword inside a longer prompt, and a prompt of
\* exactly MAX_PROMPT_LENGTH characters
C3_Witness ==
    /\ outcome["r1"] = "l1"
    /\ prompt["r1"] = [body |-> FlyAirAsia, pad |-> 0]
    /\ outcome["r2"] = "l1"
    /\ Len(Text(prompt["r2"])) = MAX_PROMPT_LENGTH

\* initial_check has finished with an UNSAFE response and wait_for has not
\* returned yet
PromptUnsafe(r) ==
    /\ pc[r] = "l2wait"
    /\ tasks[r][1].st = "done"
    /\ tasks[r][1].res = "unsafe"

\* C4: when the classifier answers UNSAFE for the prompt before the wait
\* elapses, nothing has been emitted and client.chat has not been called, the
\* handler's next step emits exactly the L2 message and ends the request, and
\* a request that ended so keeps that output and never calls client.chat.
C4_PromptJudgeBlock ==
    [][\A r \in Reqs :
         /\ PromptUnsafe(r) =>
               /\ out[r] = <<>> /\ ~chat_called[r]
               /\ \/ pc'[r] = "l2wait" /\ out'[r] = out[r] /\ ~chat_called'[r]
                  \/ /\ pc'[r] = "done"
                     /\ outcome'[r] = "l2"
                     /\ out'[r] = <<Msg(L2_MSG)>>
                     /\ ~chat_called'[r]
         /\ outcome[r] = "l2" =>
               /\ pc'[r] = "done"
               /\ outcome'[r] = "l2"
               /\ out'[r] = <<Msg(L2_MSG)>>
               /\ ~chat_called'[r]]_vars

C4_Witness ==
    \E r \in Reqs :
       /\ outcome[r] = "l2"
       /\ out[r] = <<Msg(L2_MSG)>>
       /\ prompt[r].body = Hi

Rejections == {Msg(L1_MSG), Msg(L2_MSG), Msg(L3_MSG)}

\* C5: a request of which a classifier call timed out or raised, and none
\* answered UNSAFE, has its event still set, was not rejected, has no
\* rejection message in its output, and when its stream completes the output
\* is exactly the content fragments the generation backend produced.
C5_FailOpen ==
    \A r \in Reqs :
       judged[r] = "failed" =>
          /\ is_safe_event[r]
          /\ outcome[r] \notin {"l1", "l2", "aborted"}
          /\ \A i \in DOMAIN out[r] : out[r][i] \notin Rejections
          /\ outcome[r] = "completed" => out[r] = ContentOf(produced[r])

C5_Witness ==
    \E r \in Reqs :
       /\ judged[r] = "failed"
       /\ outcome[r] = "completed"
       /\ Len(out[r]) = 2

\* C6: at most one judge invocation, of all requests and both kinds, is
\* between acquire and release at any time.
C6_OneJudgeInFlight == Cardinality(Calling) <= 1

\* one request's check holds the slot while a check of the other request has
\* just been dropped
C6_Witness ==
    \E r1, r2 \in Reqs :
       /\ r1 # r2
       /\ \E i \in DOMAIN tasks[r1] : tasks[r1][i].st = "calling"
       /\ \E i \in DOMAIN tasks[r2] : tasks[r2][i].res = "busy"

\* C7: a judge invocation that starts while the semaphore is locked ends in
\* that same step, without having called the classifier, with the event and
\* the semaphore unchanged; and an invocation that has ended never changes
\* again (so it makes no call once the slot is free).
C7_DroppedWhenBusy ==
    [][\A r \in Reqs : \A i \in DOMAIN tasks[r] :
         LET t == tasks[r][i] IN
         HasTask(tasks'[r], t.id) =>
            LET u == TaskOf(tasks'[r], t.id) IN
            /\ (t.st = "created" /\ u.st # "created" /\ ~t.cancel_req
                  /\ Locked(judge_semaphore)) =>
                  /\ u.st = "done"
                  /\ ~u.called
                  /\ u.res \in {"busy", "blank"}
                  /\ is_safe_event' = is_safe_event
                  /\ judge_semaphore' = judge_semaphore
            /\ t.st = "done" => u = t]_vars

\* a dropped invocation of a non-blank text, seen after the slot was released
C7_Witness ==
    \E r \in Reqs : \E i \in DOMAIN tasks[r] :
       /\ tasks[r][i].res = "busy"
       /\ ~tasks[r][i].called
       /\ ~Locked(judge_semaphore)

\* C8: after a request's stream has ended, by completion, abort, error or
\* disconnect, each of its background checks that is still pending has had
\* its cancellation requested.
C8_PendingChecksCancelled ==
    \A r \in Reqs :
       outcome[r] \in {"completed", "aborted", "errored", "disconnected"} =>
          \A i \in DOMAIN tasks[r] :
             (tasks[r][i].kind = "output" /\ Pending(tasks[r][i])) =>
                tasks[r][i].cancel_req

\* a stream ended while one of its checks was inside the classifier call
C8_Witness ==
    \E r \in Reqs : \E i \in DOMAIN tasks[r] :
       /\ outcome[r] \in {"completed", "errored"}
       /\ tasks[r][i].st = "calling"
       /\ tasks[r][i].cancel_req

\* C9: the event is set when the handler creates it, and once cleared it is
\* never set again.
C9_OneWayLatch ==
    [][\A r \in Reqs :
         /\ (pc[r] = "new" /\ pc'[r] # "new") => is_safe_event'[r]
         /\ ~is_safe_event[r] => ~is_safe_event'[r]]_vars

\* a check of the request answered SAFE after the event had been cleared
C9_Witness ==
    \E r \in Reqs : \E i \in DOMAIN tasks[r] :
       /\ ~is_safe_event[r]
       /\ tasks[r][i].st = "done"
       /\ tasks[r][i].res = "safe"

\* C10: the semaphore's value is its capacity less the invocations between
\* acquire and release; with none of them it is free.
C10_SlotReleased ==
    judge_semaphore = MAX_CONCURRENT_JUDGES - Cardinality(Calling)

\* the slot is free again after an invocation inside the classifier call was
\* cancelled
C10_Witness ==
    /\ judge_semaphore = MAX_CONCURRENT_JUDGES
    /\ \E r \in Reqs : \E i \in DOMAIN tasks[r] :
          /\ tasks[r][i].st = "cancelled"
          /\ tasks[r][i].called

\* C11: when the generation backend fails, at the opening of the stream or in
\* the middle of it, the response keeps every chunk it already holds, in
\* order, and gets the temporary-failure message as one more chunk; a response
\* that failed is exactly the content fragments the backend produced followed
\* by that one message; and the generator's next step ends the request as
\* errored with the output unchanged.
C11_ErrorAfterFragments ==
    [][\A r \in Reqs :
         /\ (pc[r] # "yerr" /\ pc'[r] = "yerr") =>
               out'[r] = Append(out[r], Msg(ERR_MSG))
         /\ (pc'[r] = "yerr" \/ outcome'[r] = "errored") =>
               out'[r] = Append(ContentOf(produced'[r]), Msg(ERR_MSG))
         /\ pc[r] = "yerr" =>
               /\ pc'[r] \in {"yerr", "done"}
               /\ out'[r] = out[r]
               /\ pc'[r] = "done" => outcome'[r] = "errored"]_vars

\* one request failed at the opening of its stream, the other after two
\* fragments had been forwarded
C11_Witness ==
    \E a, b \in Reqs :
       /\ outcome[a] = "errored" /\ out[a] = <<Msg(ERR_MSG)>>
       /\ outcome[b] = "errored" /\ Len(out[b]) = 3
       /\ out[b][1] # out[b][2]

\* C12: under LiveSpec, where the classifier need never respond, every request
\* that has arrived reaches a terminal outcome and every classifier call is
\* ended: from some point on each request is ended (or never arrived) and the
\* judge semaphore is free.
C12_Terminates ==
    <>[](/\ \A r \in Reqs : pc[r] \in {"new", "done"}
         /\ ~Locked(judge_semaphore))

\* every request has ended and every task is gone, one request having left
\* the prompt stage and completed its stream with its only classifier calls
\* ended by the timeout
C12_Witness ==
    /\ \A r \in Reqs : pc[r] = "done" /\ tasks[r] = <<>>
    /\ ~Locked(judge_semaphore)
    /\ \E r \in Reqs :
          /\ outcome[r] = "completed"
          /\ judged[r] = "failed"
          /\ Len(produced[r]) = 1

\* a check dispatched by the request's stream that has not finished
Unresolved(r) ==
    \E i \in DOMAIN tasks[r] :
       tasks[r][i].kind = "output" /\ Pending(tasks[r][i])

\* C13: the step that dispatches a check leaves the generator at its next
\* receive with nothing emitted or decided by it; and whenever the generator
\* is there with the event set and checks of the request unresolved, the next
\* fragment of the source can be received and forwarded at once (as long as
\* the run has parts left and no done callback is due first).
C13_DispatchDoesNotBlock ==
    /\ [](\A r \in Reqs :
            (/\ pc[r] = "recv"
             /\ is_safe_event[r]
             /\ Unresolved(r)
             /\ ~CallbackDue
             /\ PartsOf(Reqs) < MaxParts) =>
               \A f \in Frags :
                  ENABLED (GenPart(r, f) /\ out'[r] = Append(out[r], f)))
    /\ [][\A r \in Reqs :
            (pc[r] = "ytoken" /\ Len(tasks'[r]) > Len(tasks[r])) =>
               /\ pc'[r] = "recv"
               /\ out'[r] = out[r]
               /\ is_safe_event'[r] = is_safe_event[r]]_vars

\* a fragment was forwarded after a check was dispatched, while that check is
\* inside its classifier call
C13_Witness ==
    \E r \in Reqs : \E i \in DOMAIN tasks[r] :
       /\ tasks[r][i].kind = "output"
       /\ tasks[r][i].st = "calling"
       /\ ~tasks[r][i].cancel_req
       /\ is_safe_event[r]
       /\ pc[r] = "ytoken"
       /\ tasks[r][i].id < TotalLen(Buffer(out[r]))

\* the chunks of a response, as a set
Chunks(o) == { o[i] : i \in DOMAIN o }

\* C14: when the wait elapses while initial_check has not finished, the check
\* is cancelled; from then until the stream is opened the event stays set and
\* nothing is emitted; the handler's next step is to go on to the streaming
\* response, whose first step after an elapsed wait calls client.chat with
\* the event set; and no request other than one rejected by
\* a finished prompt check ever emits the L2 message.
C14_WaitElapsedFailOpen ==
    [][\A r \in Reqs :
         /\ (pc[r] = "l2wait" /\ pc'[r] = "l2cancel") =>
               /\ Pending(tasks[r][1])
               /\ tasks'[r][1].cancel_req
         /\ pc'[r] = "l2cancel" =>
               /\ is_safe_event'[r]
               /\ out'[r] = <<>>
               /\ ~chat_called'[r]
               /\ outcome'[r] = "none"
         /\ pc[r] = "l2cancel" =>
               /\ pc'[r] \in {"l2cancel", "open"}
               /\ is_safe_event'[r]
               /\ out'[r] = <<>>
         /\ (pc[r] = "open" /\ tasks[r][1].st = "cancelled" /\ pc'[r] # "open") =>
               /\ is_safe_event[r]
               /\ chat_called'[r]
               /\ is_safe_event'[r]
               /\ pc'[r] \in {"recv", "yerr"}
         /\ outcome'[r] # "l2" => Msg(L2_MSG) \notin Chunks(out'[r])]_vars

\* the wait elapsed while the classifier was at work on the prompt, and the
\* handler has gone on to the streaming response
C14_Witness ==
    \E r \in Reqs :
       /\ pc[r] = "open"
       /\ tasks[r] # <<>>
       /\ tasks[r][1].st = "cancelled"
       /\ tasks[r][1].called
       /\ is_safe_event[r]
       /\ out[r] = <<>>

\* the first k content fragments the backend produced for the request
Forwarded(r, k) == SubSeq(SelectSeq(produced[r], LAMBDA p : p \in Frags), 1, k)

\* the response is a prefix of the backend's content fragments, in the order
\* received, followed by at most one of the messages ms
PrefixThenOneOf(r, ms) ==
    \E k \in 0..Len(produced[r]) :
       /\ k <= Len(SelectSeq(produced[r], LAMBDA p : p \in Frags))
       /\ \/ out[r] = Forwarded(r, k)
          \/ \E m \in ms : out[r] = Append(Forwarded(r, k), Msg(m))

\* C15 as stated: in every state the chunks of every request are a prefix of
\* the content fragments the backend produced, in the order received,
\* followed by at most one fixed message, the L3 abort or the temporary-
\* failure message, as the last chunk.
C15_PrefixThenStreamMessage ==
    \A r \in Reqs : PrefixThenOneOf(r, {L3_MSG, ERR_MSG})

\* C15 amended: that holds of every request that is not rejected at the
\* prompt stage; a request rejected there has its one rejection message, L1
\* or L2, as its only chunk, and the backend produced nothing for it.
C15_PrefixThenOneMessage ==
    \A r \in Reqs :
       CASE outcome[r] = "l1" -> out[r] = <<Msg(L1_MSG)>> /\ produced[r] = <<>>
         [] outcome[r] = "l2" -> out[r] = <<Msg(L2_MSG)>> /\ produced[r] = <<>>
         [] OTHER -> PrefixThenOneOf(r, {L3_MSG, ERR_MSG})

\* one response holds two different fragments in the order received and then
\* the temporary-failure message; the other request was rejected by the
\* keyword block
C15_Witness ==
    \E a, b \in Reqs :
       /\ outcome[a] = "errored"
       /\ Len(out[a]) = 3
       /\ out[a][1].id = "spaces" /\ out[a][2].id = "words"
       /\ outcome[b] = "l1"

\* a classifier call of request r ends in this step with an UNSAFE response
UnsafeVerdict(r) ==
    \E i \in DOMAIN tasks[r] :
       /\ tasks[r][i].st = "calling"
       /\ i \in DOMAIN tasks'[r]
       /\ tasks'[r][i].st = "done"
       /\ tasks'[r][i].res = "unsafe"

\* C17: an UNSAFE verdict on a text of one request clears that request's
\* event and leaves the event of every other request as it was; and a
\* request's event changes in no step but an UNSAFE verdict of its own.
C17_SignalPerRequest ==
    [][\A a \in Reqs :
         /\ UnsafeVerdict(a) =>
               /\ ~is_safe_event'[a]
               /\ \A b \in Reqs \ {a} : is_safe_event'[b] = is_safe_event[b]
         /\ is_safe_event'[a] # is_safe_event[a] => UnsafeVerdict(a)]_vars

\* two requests stream at the same time; a check of one has answered UNSAFE
\* and the event of the other is still set
C17_Witness ==
    \E a, b \in Reqs :
       /\ a # b
       /\ Streaming(a) /\ Streaming(b)
       /\ judged[a] = "unsafe" /\ ~is_safe_event[a]
       /\ is_safe_event[b]
       /\ Len(out[b]) > 0

\* len(prompt) of a prompt written [body, pad]
PromptLen(p) == Len(p.body) + p.pad

\* C18: a request whose prompt, as received, is longer than MAX_PROMPT_LENGTH
\* ends at once with the 413 error: it yields no chunk, no judge task is ever
\* created for it, client.chat is never called, and its event is never
\* cleared; this also when the prompt holds a denylist entry or would fit
\* after strip().
C18_TooLongRejectedFirst ==
    \A r \in Reqs :
       (pc[r] # "new" /\ PromptLen(prompt[r]) > MAX_PROMPT_LENGTH) =>
          /\ pc[r] = "done"
          /\ outcome[r] = "413"
          /\ out[r] = <<>>
          /\ tasks[r] = <<>>
          /\ produced[r] = <<>>
          /\ ~chat_called[r]
          /\ is_safe_event[r]

\* rejected with 413: a prompt of MAX_PROMPT_LENGTH + 1 characters that holds
\* a denylist entry, and one that strip() would bring down to the limit
C18_Witness ==
    \E a, b \in Reqs :
       /\ outcome[a] = "413" /\ prompt[a].body = FlyAirAsia
       /\ outcome[b] = "413" /\ prompt[b].body = Hi
       /\ PromptLen(prompt[a]) = MAX_PROMPT_LENGTH + 1
       /\ PromptLen(prompt[b]) = MAX_PROMPT_LENGTH + 1

\* C19: a judge task whose cancellation has been requested, by the stream's
\* cleanup or by the prompt-stage wait, does nothing more but end cancelled:
\* it records no response and the step in which it ends leaves the event as
\* it was; and an event is cleared only in a step in which a task that was
\* not asked to cancel receives an UNSAFE response.
C19_CancelledNeverClears ==
    [][\A r \in Reqs :
         /\ \A i \in DOMAIN tasks[r] :
               LET t == tasks[r][i] IN
               (t.cancel_req /\ Pending(t) /\ HasTask(tasks'[r], t.id)) =>
                  LET u == TaskOf(tasks'[r], t.id) IN
                  /\ u.cancel_req
                  /\ u.res = "none"
                  /\ u.st \in {t.st, "cancelled"}
                  /\ u.st # t.st => is_safe_event'[r] = is_safe_event[r]
         /\ (is_safe_event[r] /\ ~is_safe_event'[r]) =>
               \E i \in DOMAIN tasks[r] :
                  /\ tasks[r][i].st = "calling"
                  /\ ~tasks[r][i].cancel_req
                  /\ i \in DOMAIN tasks'[r]
                  /\ tasks'[r][i].res = "unsafe"]_vars

\* a prompt check cancelled by the wait and a background check cancelled by
\* the stream's cleanup, both cancelled inside the classifier call, and both
\* events still set
C19_Witness ==
    \E a, b \in Reqs :
       /\ pc[a] \in {"l2cancel", "open"}
       /\ tasks[a] # <<>>
       /\ tasks[a][1].st = "cancelled" /\ tasks[a][1].called
       /\ is_safe_event[a]
       /\ pc[b] = "done"
       /\ \E i \in DOMAIN tasks[b] :
             /\ tasks[b][i].kind = "output"
             /\ tasks[b][i].st = "cancelled"
             /\ tasks[b][i].called
       /\ is_safe_event[b]

\* len(full_text_buffer)
BufLen(r) == TotalLen(Buffer(out[r]))

\* fragment j of the buffer has characters among the buffer's last WINDOW
InWindow(buf, j) ==
    buf[j].len > 0 /\ TotalLen(SubSeq(buf, 1, j)) > TotalLen(buf) - WINDOW

\* C20: when the loop goes on after a fragment was appended, a task is
\* created exactly if the buffer has grown by CHECK_INTERVAL characters or
\* more since last_check_len; last_check_len then becomes the buffer's
\* length, and the task's text is the buffer's last 140 characters (the whole
\* buffer when it is shorter); otherwise tasks and counter are unchanged.  So
\* whenever the loop is at its next receive, fewer than CHECK_INTERVAL
\* characters have accumulated since the last dispatch.
C20_IntervalTrigger ==
    [][\A r \in Reqs :
         /\ (pc[r] = "ytoken" /\ pc'[r] = "recv") =>
               LET buf == Buffer(out[r])
                   n   == TotalLen(buf)
               IN
               IF n - last_check_len[r] >= CHECK_INTERVAL
               THEN /\ Len(tasks'[r]) = Len(tasks[r]) + 1
                    /\ SubSeq(tasks'[r], 1, Len(tasks[r])) = tasks[r]
                    /\ last_check_len'[r] = n
                    /\ LET t == tasks'[r][Len(tasks'[r])] IN
                       /\ t.kind = "output" /\ t.st = "created"
                       /\ t.text.len = IF n < 140 THEN n ELSE 140
                       /\ t.text.blank =
                             (\A j \in DOMAIN buf : InWindow(buf, j) => buf[j].blank)
               ELSE /\ tasks'[r] = tasks[r]
                    /\ last_check_len'[r] = last_check_len[r]
         /\ pc'[r] = "recv" =>
               /\ TotalLen(Buffer(out'[r])) - last_check_len'[r] < CHECK_INTERVAL
               /\ last_check_len'[r] >= 0]_vars

\* a check was dispatched when exactly CHECK_INTERVAL characters had
\* accumulated, on a window that is the whole buffer
C20_Witness ==
    \E r \in Reqs :
       /\ pc[r] = "recv"
       /\ BufLen(r) = CHECK_INTERVAL
       /\ last_check_len[r] = CHECK_INTERVAL
       /\ \E i \in DOMAIN tasks[r] :
             /\ tasks[r][i].id = CHECK_INTERVAL
             /\ tasks[r][i].text.len = CHECK_INTERVAL

\* C21: a judge invocation on empty or whitespace-only text never takes the
\* semaphore and never calls the classifier: it ends in its first step with
\* the early return, the semaphore and every event unchanged by that step,
\* and once ended it never changes again; until it runs it can only be
\* cancelled.
C21_BlankTextNoOp ==
    [][\A r \in Reqs : \A i \in DOMAIN tasks[r] :
         LET t == tasks[r][i] IN
         (t.text.blank /\ HasTask(tasks'[r], t.id)) =>
            LET u == TaskOf(tasks'[r], t.id) IN
            /\ ~u.called
            /\ u.st \in {"created", "done", "cancelled"}
            /\ (t.st = "created" /\ u.st = "done") =>
                  /\ u.res = "blank"
                  /\ judge_semaphore' = judge_semaphore
                  /\ is_safe_event' = is_safe_event
            /\ (t.st = "created" /\ u.st = "cancelled") => t.cancel_req
            /\ t.st = "done" => u = t]_vars

\* with the semaphore free: the check of a prompt that strips to nothing has
\* returned, and so has a background check of a window of CHECK_INTERVAL
\* whitespace characters
C21_Witness ==
    \E r, q \in Reqs :
       /\ ~Locked(judge_semaphore)
       /\ pc[r] = "l2wait"
       /\ tasks[r][1].text.len = 0
       /\ tasks[r][1].st = "done"
       /\ tasks[r][1].res = "blank"
       /\ ~tasks[r][1].called
       /\ is_safe_event[r]
       /\ \E i \in DOMAIN tasks[q] :
             /\ tasks[q][i].kind = "output"
             /\ tasks[q][i].text = [len |-> CHECK_INTERVAL, blank |-> TRUE]
             /\ tasks[q][i].st = "done"
             /\ tasks[q][i].res = "blank"
             /\ ~tasks[q][i].called
             /\ is_safe_event[q]

\* the prompt-stage check of the request, dropped because the semaphore was
\* held when it started
BusyPrompt(r) ==
    /\ tasks[r] # <<>>
    /\ tasks[r][1].kind = "prompt"
    /\ tasks[r][1].res = "busy"

\* C22: a prompt-stage check that starts while the semaphore is held finds it
\* held by a check of another request and ends in that step without a
\* classifier call, the event and the semaphore unchanged.  From then on the
\* check never changes, no classifier call is made for the request, its event
\* stays set and nothing is emitted while the handler goes on to the
\* streaming response, whose first step calls client.chat with the event set.
C22_BusyPromptProceeds ==
    [][\A r \in Reqs :
         /\ ( /\ tasks[r] # <<>> /\ tasks'[r] # <<>>
              /\ tasks[r][1].kind = "prompt"
              /\ tasks[r][1].st = "created" /\ tasks'[r][1].st # "created"
              /\ ~tasks[r][1].cancel_req
              /\ Locked(judge_semaphore) ) =>
                /\ \E q \in Reqs \ {r} : \E i \in DOMAIN tasks[q] :
                      tasks[q][i].st = "calling"
                /\ tasks'[r][1].st = "done"
                /\ tasks'[r][1].res \in {"busy", "blank"}
                /\ tasks'[r][1].res = "busy" <=> ~tasks[r][1].text.blank
                /\ ~tasks'[r][1].called
                /\ is_safe_event' = is_safe_event
                /\ judge_semaphore' = judge_semaphore
         /\ BusyPrompt(r) =>
                /\ tasks[r][1].st = "done" /\ ~tasks[r][1].called
                /\ judged[r] = "none" /\ judged'[r] = "none"
                /\ is_safe_event[r] /\ is_safe_event'[r]
                /\ out[r] = <<>> /\ ~chat_called[r]
                /\ pc[r] \in {"l2wait", "open"}
                /\ pc[r] = "l2wait" =>
                      /\ pc'[r] \in {"l2wait", "open"}
                      /\ tasks'[r] = tasks[r]
                      /\ out'[r] = <<>>
                /\ pc[r] = "open" =>
                      \/ pc'[r] = "open" /\ tasks'[r] = tasks[r] /\ out'[r] = <<>>
                      \/ chat_called'[r] /\ pc'[r] \in {"recv", "yerr"}]_vars

\* the check of prompt ' Hi ' was dropped while a check of the other request
\* was inside its classifier call, and the handler has gone on to the
\* streaming response while that call is still running
C22_Witness ==
    \E r \in Reqs : \E q \in Reqs \ {r} :
       /\ BusyPrompt(r)
       /\ pc[r] = "open"
       /\ prompt[r].body = Hi
       /\ ~tasks[r][1].called
       /\ is_safe_event[r]
       /\ \E i \in DOMAIN tasks[q] : tasks[q][i].st = "calling"

\* the characters of generated text forwarded before chunk i of the response
ForwardedBefore(o, i) == TotalLen(Buffer(SubSeq(o, 1, i - 1)))

\* C23: the stream stage starts with the event set, that is, the handler
\* goes on to the streaming response, and the generator calls client.chat,
\* only with the event set; and wherever the L3 abort message stands in a
\* response, at least CHECK_INTERVAL characters of generated text were
\* forwarded before it.
C23_AbortOnlyAfterInterval ==
    \A r \in Reqs :
       /\ pc[r] = "open" => is_safe_event[r]
       /\ \A i \in DOMAIN out[r] :
             out[r][i] = Msg(L3_MSG) => ForwardedBefore(out[r], i) >= CHECK_INTERVAL

\* the handler went on to the streaming response with the event already
\* cleared by the prompt-stage check: the first fragment of the stream was
\* withheld and the abort message is the whole response
C23_Witness ==
    \E r \in Reqs :
       /\ outcome[r] = "aborted"
       /\ out[r] = <<Msg(L3_MSG)>>
       /\ Len(produced[r]) = 1
       /\ HasContent(produced[r][1])
       /\ chat_called[r]

====
